---- MODULE Spec2Model ----
(***************************************************************************)
(* yew-state: shared state handlers (src/src/handler.rs) and the context   *)
(* agent plus component wrapper that distribute it                          *)
(* (src/src/component/wrapper.rs).                                          *)
(*                                                                          *)
(* Rc<T> is modelled by a heap of cells: an Rc is an address, its strong    *)
(* count is the number of places of the state that hold the address.        *)
(* The Model is a counter; reductions are closures over it.                 *)
(***************************************************************************)
EXTENDS Integers, Sequences, FiniteSets, TLC

VARIABLES
    kind,           \* the Handler type T of the services: "Shared" | "Storage"
    heap,           \* Rc cells: address -> Model value
    storage,        \* browser storage: key -> text, or NoRecord
    created,        \* scope -> whether the agent of the scope exists
    handler,        \* scope -> SharedStateService.handler
    subscriptions,  \* scope -> SharedStateService.subscriptions
    inbox,          \* scope -> agent events queued for the service
    status,         \* component -> "uninitialized" | "mounted" | "unmounted"
    props,          \* component -> snapshot cached in props.handle() (or Null)
    mailbox,        \* component -> SharedStateComponentMsg queue
    render,         \* ShouldRender returned by the last update / change
    issued,         \* number of mutation requests issued by host components
    hist,           \* scope -> requests the service applied, in order
    base,           \* scope -> Model value the handler was constructed with
    sent,           \* component -> State responses the service sent to its id
    sh,             \* handler laboratory: a StorageHandler
    mh,             \* handler laboratory: a SharedHandler
    snaps,          \* handler laboratory: snapshots handed out by state()
    taken,          \* handler laboratory: value each snapshot had when taken
    napplied,       \* handler laboratory: reductions applied so far
    saved,          \* the last apply / apply_once wrote the record
    clone,             \* handler laboratory: a clone of the StorageHandler
    opened,         \* handler laboratory: outcome of StorageService::new in clone
    shown,          \* component -> what view() last gave the wrapped component
    handled         \* the component method that ran last: update | change

vars == <<kind, heap, storage, created, handler, subscriptions, inbox, status,
          props, mailbox, render, issued, hist, base, sent,
          sh, mh, snaps, taken, napplied, saved, clone, opened, shown, handled>>

\* the handler laboratory's own variables, and the outcome of the last write
lab == <<sh, mh, snaps, taken, napplied, saved, clone, opened>>

\* what the components rendered and ran last
screen == <<shown, handled>>

\* the ghost counters of the component program
counters == <<issued, hist, base, sent>>

-----------------------------------------------------------------------------
(* Bounds *)

MaxComp == 2
MaxDispatch == 2
MaxApply == 2
MaxSnaps == 1
\* components the host mounts plus requests it issues, in one run
MaxOps == 3

Scopes == {"A", "B"}

\* Components 1..MaxComp use scope A; one more component uses scope B.
Other == MaxComp + 1
Comps == 1..Other

\* The scope tag is a type parameter of the component: fixed per component.
ScopeOf(c) == IF c = Other THEN "B" ELSE "A"

Null == 0
Addr == 1..(MaxDispatch + MaxSnaps + 4)

NoRecord == <<"none">>
Key == "counter"
OtherKey == "other"
Keys == {Key, OtherKey}

-----------------------------------------------------------------------------
(* The Model and its reductions *)

\* Default::default() of the Model: { count: 0 }
Default == [count |-> 0]

\* the closures the host components send: a reusable one (Reduction) and a
\* one-shot one (ReductionOnce)
Reds == {"inc"}
OnceReds == {"dbl"}

\* f(&mut model): the closure run on the model
Reduce(f, m) ==
    IF f = "inc" THEN [count |-> m.count + 1] ELSE [count |-> m.count * 2]

-----------------------------------------------------------------------------
(* Json(..): the text form of the Model, written and parsed digit by digit *)

Digits == <<"0", "1", "2", "3", "4", "5", "6", "7", "8", "9">>

RECURSIVE Decimal(_)
Decimal(n) ==
    IF n < 10 THEN <<Digits[n + 1]>>
    ELSE Decimal(n \div 10) \o <<Digits[(n % 10) + 1]>>

DigitValue(ch) == CHOOSE d \in 0..9 : Digits[d + 1] = ch

IsDigit(ch) == \E d \in 0..9 : Digits[d + 1] = ch

RECURSIVE ParseDecimal(_, _)
ParseDecimal(s, acc) ==
    IF s = <<>> THEN acc
    ELSE ParseDecimal(Tail(s), acc * 10 + DigitValue(Head(s)))

\* Json(&self.state) into Text: {"count":n}
ToJson(m) == <<"{", "count", ":">> \o Decimal(m.count) \o <<"}">>

\* Json<Result<T>> from Text: Ok(model) or Err
FromJson(t) ==
    LET n == Len(t)
        body == IF n >= 5 THEN SubSeq(t, 4, n - 1) ELSE <<>>
        wellFormed ==
            /\ n >= 5
            /\ SubSeq(t, 1, 3) = <<"{", "count", ":">>
            /\ t[n] = "}"
            /\ \A i \in 1..Len(body) : IsDigit(body[i])
            /\ (Len(body) > 1 => body[1] # "0")
    IN  IF t # NoRecord /\ wellFormed
        THEN [ok |-> TRUE, val |-> [count |-> ParseDecimal(body, 0)]]
        ELSE [ok |-> FALSE, val |-> Default]

-----------------------------------------------------------------------------
(* Rc<T>: cells, strong counts, Rc::make_mut *)

Min(S) == CHOOSE x \in S : \A y \in S : x <= y

\* Every place of the state that holds an Rc to cell a.
HoldersOf(a, hd, pr, mb, s1, m1, sn, c1) ==
         {<<"handler", s>> : s \in {t \in Scopes : hd[t].state = a}}
    \cup {<<"props", c>> : c \in {d \in Comps : pr[d] = a}}
    \cup UNION {{<<"msg", c, i>> :
                    i \in {j \in 1..Len(mb[c]) : mb[c][j].state = a}} : c \in Comps}
    \cup {<<"sh">> : x \in {y \in {1} : s1.state = a}}
    \cup {<<"mh">> : x \in {y \in {1} : m1.state = a}}
    \cup {<<"ch">> : x \in {y \in {1} : c1.state = a}}
    \cup {<<"snap", i>> : i \in {j \in 1..Len(sn) : sn[j] = a}}

\* Rc::strong_count of cell a in the current state
StrongCount(a) ==
    Cardinality(HoldersOf(a, handler, props, mailbox, sh, mh, snaps, clone))

\* whether some Rc points to cell a
Held(a, hd, pr, mb, s1, m1, sn, c1) ==
    \/ \E s \in Scopes : hd[s].state = a
    \/ \E c \in Comps : pr[c] = a
    \/ \E c \in Comps : \E i \in 1..Len(mb[c]) : mb[c][i].state = a
    \/ s1.state = a
    \/ m1.state = a
    \/ c1.state = a
    \/ \E i \in 1..Len(sn) : sn[i] = a

\* the cells some Rc points to
Busy == {a \in Addr : Held(a, handler, props, mailbox, sh, mh, snaps, clone)}

\* Rc::new(v): a cell no Rc points to
Rc_new(hp, busy, v) ==
    LET b == Min(Addr \ busy)
    IN  [ptr |-> b, heap |-> [hp EXCEPT ![b] = v], busy |-> busy \cup {b}]

\* make_mut without the uniqueness test: always the cell itself
make_mut_in_place(hp, busy, a) == [ptr |-> a, heap |-> hp, busy |-> busy]

\* Rc::make_mut(&mut rc): unique -> the cell itself; shared -> a clone of it
make_mut(hp, busy, a) ==
    IF StrongCount(a) = 1
    THEN [ptr |-> a, heap |-> hp, busy |-> busy]
    ELSE Rc_new(hp, busy, hp[a])

\* drop(rc) for the Rcs to the cells in dropped: a cell no Rc points to any
\* more is released.
Release(hp, dropped) ==
    [a \in Addr |->
        IF a \in dropped /\ ~Held(a, handler', props', mailbox', sh', mh', snaps', clone')
        THEN Default ELSE hp[a]]

-----------------------------------------------------------------------------
(* Handlers. A handler is [state: Rc, storage: Some/None]; an operation     *)
(* returns the handler with the heap, the busy cells and the storage.       *)

NoHandler == [state |-> Null, storage |-> FALSE]

Out(h, hp, busy, st) == [h |-> h, heap |-> hp, busy |-> busy, storage |-> st]

\* SharedHandler::new
SharedHandler_new(hp, busy, st) ==
    LET rc == Rc_new(hp, busy, Default)
    IN  Out([state |-> rc.ptr, storage |-> FALSE], rc.heap, rc.busy, st)

\* SharedHandler::apply: f(Rc::make_mut(&mut self.state))
SharedHandler_apply(h, f, hp, busy, st) ==
    LET mm == make_mut(hp, busy, h.state)
    IN  Out([h EXCEPT !.state = mm.ptr],
            [mm.heap EXCEPT ![mm.ptr] = Reduce(f, @)], mm.busy, st)

\* SharedHandler::apply_once: f(Rc::make_mut(&mut self.state))
SharedHandler_apply_once(h, f, hp, busy, st) ==
    LET mm == make_mut(hp, busy, h.state)
    IN  Out([h EXCEPT !.state = mm.ptr],
            [mm.heap EXCEPT ![mm.ptr] = Reduce(f, @)], mm.busy, st)

\* load_state that does not look at self.storage
load_state_unguarded(h, hp, busy, st) ==
    LET result == FromJson(st[Key])
    IN  IF result.ok
        THEN LET rc == Rc_new(hp, busy, result.val)
             IN  Out([h EXCEPT !.state = rc.ptr],
                     [rc.heap EXCEPT ![h.state] = Default],
                     rc.busy \ {h.state}, st)
        ELSE Out(h, hp, busy, st)

\* load_state that never takes the record
load_state_keep_default(h, hp, busy, st) == Out(h, hp, busy, st)

\* StorageHandler::load_state: a record that parses replaces self.state (the
\* Rc it replaces was the handler's alone: its cell is released)
load_state(h, hp, busy, st) ==
    LET result == FromJson(st[Key])
    IN  IF h.storage /\ result.ok
        THEN LET rc == Rc_new(hp, busy, result.val)
             IN  Out([h EXCEPT !.state = rc.ptr],
                     [rc.heap EXCEPT ![h.state] = Default],
                     rc.busy \ {h.state}, st)
        ELSE Out(h, hp, busy, st)

\* save_state under another key than the one load_state reads
save_state_other_key(h, hp, busy, st, written) ==
    IF h.storage /\ written
    THEN Out(h, hp, busy, [st EXCEPT ![OtherKey] = ToJson(hp[h.state])])
    ELSE Out(h, hp, busy, st)

\* save_state that, when the write fails, goes back to the stored Model
save_state_rollback(h, hp, busy, st, written) ==
    IF h.storage /\ written
    THEN Out(h, hp, busy, [st EXCEPT ![Key] = ToJson(hp[h.state])])
    ELSE IF h.storage
    THEN Out(h, [hp EXCEPT ![h.state] = FromJson(st[Key]).val], busy, st)
    ELSE Out(h, hp, busy, st)

\* StorageHandler::save_state; written tells whether the write went through
save_state(h, hp, busy, st, written) ==
    IF h.storage /\ written
    THEN Out(h, hp, busy, [st EXCEPT ![Key] = ToJson(hp[h.state])])
    ELSE Out(h, hp, busy, st)

\* StorageHandler::new; avail is the outcome of StorageService::new(area)
StorageHandler_new(avail, hp, busy, st) ==
    LET rc == Rc_new(hp, busy, Default)
        this == [state |-> rc.ptr, storage |-> avail]
    IN  load_state(this, rc.heap, rc.busy, st)

\* StorageHandler::apply
StorageHandler_apply(h, f, hp, busy, st, written) ==
    LET mm == make_mut(hp, busy, h.state)
        h2 == [h EXCEPT !.state = mm.ptr]
        hp2 == [mm.heap EXCEPT ![mm.ptr] = Reduce(f, @)]
    IN  save_state(h2, hp2, mm.busy, st, written)

\* StorageHandler::apply_once
StorageHandler_apply_once(h, f, hp, busy, st, written) ==
    LET mm == make_mut(hp, busy, h.state)
        h2 == [h EXCEPT !.state = mm.ptr]
        hp2 == [mm.heap EXCEPT ![mm.ptr] = Reduce(f, @)]
    IN  save_state(h2, hp2, mm.busy, st, written)

\* a field-by-field clone: the source's Rc and the source's storage handle
StorageHandler_clone_derived(h, avail, hp, busy, st) ==
    Out([state |-> h.state, storage |-> h.storage], hp, busy, st)

\* StorageHandler::clone: new(), then new.state = self.state.clone(); the Rc
\* new() made is dropped and its cell released
StorageHandler_clone(h, avail, hp, busy, st) ==
    LET new == StorageHandler_new(avail, hp, busy, st)
        tmp == new.h.state
    IN  Out([new.h EXCEPT !.state = h.state],
            [new.heap EXCEPT ![tmp] = Default], new.busy \ {tmp}, new.storage)

\* <T as Handler>::new for the handler type T of the services
Handler_new(k, avail, hp, busy, st) ==
    IF k = "Shared" THEN SharedHandler_new(hp, busy, st)
    ELSE StorageHandler_new(avail, hp, busy, st)

\* <T as Handler>::apply
Handler_apply(k, h, f, hp, busy, st, written) ==
    IF k = "Shared" THEN SharedHandler_apply(h, f, hp, busy, st)
    ELSE StorageHandler_apply(h, f, hp, busy, st, written)

\* <T as Handler>::apply_once
Handler_apply_once(k, h, f, hp, busy, st, written) ==
    IF k = "Shared" THEN SharedHandler_apply_once(h, f, hp, busy, st)
    ELSE StorageHandler_apply_once(h, f, hp, busy, st, written)

\* Handler::state: Rc::clone(&self.state)
Handler_state(h) == h.state

-----------------------------------------------------------------------------
(* Messages *)

\* AgentLifecycleEvent of a service: Connected(who), Input(Request, who),
\* Disconnected(who); tok names the request object (the closure sent)
Event(ev, who, f, tok) == [ev |-> ev, who |-> who, f |-> f, tok |-> tok]

\* SharedStateComponentMsg: SetLocal(state) | Apply(f) | ApplyOnce(f)
Msg(m, state, f, tok) == [msg |-> m, state |-> state, f |-> f, tok |-> tok]

-----------------------------------------------------------------------------
(* props.handle(): the handle of the component's properties, reduced to the *)
(* snapshot it caches                                                       *)

\* the handle of properties as the parent supplies them: no snapshot yet
ParentHandle == Null

\* Handle::set_local_state(state): overwrite the cached snapshot
set_local_state(hd, state) == state

\* Handle::set_local(other): take over the other handle's cached snapshot
set_local(hd, other) == other

\* what the wrapped component is rendered with: nothing yet, the handle as
\* the parent supplied it, or a snapshot of the Model
NotShown == [of |-> "nothing", model |-> Default]
ShownParent == [of |-> "parent", model |-> Default]
ShownState(m) == [of |-> "state", model |-> m]

-----------------------------------------------------------------------------
(* SharedStateService *)

\* a respond whose message overtakes the messages already queued
respond_front(net, who, snap) ==
    [mb |-> IF status[who] = "mounted"
            THEN [net.mb EXCEPT ![who] = <<Msg("SetLocal", snap, "-", 0)>> \o @]
            ELSE net.mb,
     sent |-> [net.sent EXCEPT ![who] = @ + 1]]

\* a respond whose message never reaches the component
respond_lost(net, who, snap) ==
    [mb |-> net.mb, sent |-> [net.sent EXCEPT ![who] = @ + 1]]

\* AgentLink::respond(who, Response::State(snap)): the bridge callback of who
\* turns it into SetLocal(snap), queued for the component; a bridge that was
\* dropped receives nothing.  net.sent counts the calls.
respond(net, who, snap) ==
    [mb |-> IF status[who] = "mounted"
            THEN [net.mb EXCEPT ![who] = Append(@, Msg("SetLocal", snap, "-", 0))]
            ELSE net.mb,
     sent |-> [net.sent EXCEPT ![who] = @ + 1]]

\* the loop, one subscriber at a time
RECURSIVE each(_, _, _)
each(net, subs, snap) ==
    IF subs = {} THEN net
    ELSE LET who == CHOOSE w \in subs : TRUE
         IN  each(respond(net, who, snap), subs \ {who}, snap)

\* a loop that leaves out one subscriber
notify_skip(net, subs, snap) ==
    IF subs = {} THEN net
    ELSE each(net, subs \ {CHOOSE w \in subs : TRUE}, snap)

\* for who in self.subscriptions.iter().cloned() { respond(who, State(state())) }
notify(net, subs, snap) == each(net, subs, snap)

\* a broadcast of the snapshot taken before the mutation
broadcast_stale(s, h) ==
    notify([mb |-> mailbox, sent |-> sent], subscriptions[s],
           Handler_state(handler[s]))

\* a broadcast over one registry shared by the services of every scope
broadcast_all_scopes(s, h) ==
    notify([mb |-> mailbox, sent |-> sent],
           UNION {subscriptions[t] : t \in Scopes}, Handler_state(h))

\* "Notify subscribers of change": the handler's state() to every subscriber
broadcast(s, h) ==
    notify([mb |-> mailbox, sent |-> sent], subscriptions[s], Handler_state(h))

\* outcomes of StorageService::new(area) for the services: the browser's
\* storage is there (the handler laboratory covers its absence)
Platform == {TRUE}

\* Agent::create, run by the first bridge to the (handler type, scope) agent
Service_create(s, avail) ==
    LET r == Handler_new(kind, avail, heap, Busy, storage)
    IN  [handler |-> [handler EXCEPT ![s] = r.h],
         heap |-> r.heap,
         base |-> [base EXCEPT ![s] = r.heap[r.h.state]]]

\* a match that applies the request only when somebody is registered
dispatch_if_heard(s, e, written) ==
    IF subscriptions[s] = {}
    THEN Out(handler[s], heap, Busy, storage)
    ELSE IF e.ev = "Apply"
    THEN Handler_apply(kind, handler[s], e.f, heap, Busy, storage, written)
    ELSE Handler_apply_once(kind, handler[s], e.f, heap, Busy, storage, written)

\* the match of handle_input: apply or apply_once of the handler
dispatch(s, e, written) ==
    IF e.ev = "Apply"
    THEN Handler_apply(kind, handler[s], e.f, heap, Busy, storage, written)
    ELSE Handler_apply_once(kind, handler[s], e.f, heap, Busy, storage, written)

\* SharedStateService::handle_input
handle_input(s) ==
    /\ inbox[s] # <<>>
    /\ Head(inbox[s]).ev \in {"Apply", "ApplyOnce"}
    /\ \E written \in BOOLEAN :
        LET e == Head(inbox[s])
            r == dispatch(s, e, written)
            net == broadcast(s, r.h)
        IN  /\ inbox' = [inbox EXCEPT ![s] = Tail(@)]
            /\ handler' = [handler EXCEPT ![s] = r.h]
            /\ storage' = r.storage
            /\ heap' = r.heap
            /\ mailbox' = net.mb
            /\ sent' = net.sent
            /\ hist' = [hist EXCEPT ![s] = Append(@, e)]
            /\ saved' = (r.h.storage /\ written)
            /\ UNCHANGED <<kind, created, subscriptions, status, props, render,
                           issued, base, sh, mh, snaps, taken, napplied,
                           clone, opened, screen>>

\* connected that registers who and sends nothing
connected_silent(s) ==
    /\ inbox[s] # <<>>
    /\ Head(inbox[s]).ev = "Connected"
    /\ inbox' = [inbox EXCEPT ![s] = Tail(@)]
    /\ subscriptions' = [subscriptions EXCEPT ![s] = @ \cup {Head(inbox[s]).who}]
    /\ UNCHANGED <<kind, heap, storage, created, handler, status, props, mailbox,
                   render, counters, lab, screen>>

\* connected that sends the snapshot and registers nobody
connected_forget(s) ==
    /\ inbox[s] # <<>>
    /\ Head(inbox[s]).ev = "Connected"
    /\ LET who == Head(inbox[s]).who
           net == respond([mb |-> mailbox, sent |-> sent], who,
                          Handler_state(handler[s]))
       IN  /\ inbox' = [inbox EXCEPT ![s] = Tail(@)]
           /\ mailbox' = net.mb
           /\ sent' = net.sent
    /\ UNCHANGED <<kind, heap, storage, created, handler, subscriptions, status,
                   props, render, issued, hist, base, lab, screen>>

\* SharedStateService::connected
connected(s) ==
    /\ inbox[s] # <<>>
    /\ Head(inbox[s]).ev = "Connected"
    /\ LET who == Head(inbox[s]).who
           net == respond([mb |-> mailbox, sent |-> sent], who,
                          Handler_state(handler[s]))
       IN  /\ inbox' = [inbox EXCEPT ![s] = Tail(@)]
           /\ subscriptions' = [subscriptions EXCEPT ![s] = @ \cup {who}]
           /\ mailbox' = net.mb
           /\ sent' = net.sent
    /\ UNCHANGED <<kind, heap, storage, created, handler, status, props, render,
                   issued, hist, base, lab, screen>>

\* disconnected that leaves who in the registry
disconnected_keep(s) ==
    /\ inbox[s] # <<>>
    /\ Head(inbox[s]).ev = "Disconnected"
    /\ inbox' = [inbox EXCEPT ![s] = Tail(@)]
    /\ UNCHANGED <<kind, heap, storage, created, handler, subscriptions, status,
                   props, mailbox, render, counters, lab, screen>>

\* SharedStateService::disconnected
disconnected(s) ==
    /\ inbox[s] # <<>>
    /\ Head(inbox[s]).ev = "Disconnected"
    /\ LET who == Head(inbox[s]).who
       IN  /\ inbox' = [inbox EXCEPT ![s] = Tail(@)]
           /\ subscriptions' = [subscriptions EXCEPT ![s] = @ \ {who}]
    /\ UNCHANGED <<kind, heap, storage, created, handler, status, props, mailbox,
                   render, counters, lab, screen>>

-----------------------------------------------------------------------------
(* SharedStateComponent *)

\* a queue that hands the newest event to the service first
send_front(ib, s, ev, who, f, tok) ==
    [ib EXCEPT ![s] = <<Event(ev, who, f, tok)>> \o @]

\* bridge.send(request) and the bridge's own Connected / Disconnected: the
\* event is queued for the service of the scope
send(ib, s, ev, who, f, tok) == [ib EXCEPT ![s] = Append(@, Event(ev, who, f, tok))]

\* what the host has done so far: components mounted and requests issued
Ops == Cardinality({c \in Comps : status[c] # "uninitialized"}) + issued

\* SharedStateComponent::create: bridge to the service of the component's
\* scope (the agent is created by its first bridge and told Connected), and
\* callbacks for the handle.  Identities are handed out in creation order.
create(c) ==
    /\ status[c] = "uninitialized"
    /\ Ops < MaxOps
    /\ \A d \in Comps :
          d < c /\ ScopeOf(d) = ScopeOf(c) => status[d] # "uninitialized"
    /\ \E avail \in Platform :
        LET s == ScopeOf(c)
            svc == IF created[s]
                   THEN [handler |-> handler, heap |-> heap, base |-> base]
                   ELSE Service_create(s, avail)
        IN  /\ handler' = svc.handler
            /\ base' = svc.base
            /\ heap' = svc.heap
            /\ created' = [created EXCEPT ![s] = TRUE]
            /\ inbox' = send(inbox, s, "Connected", c, "-", 0)
            /\ status' = [status EXCEPT ![c] = "mounted"]
            /\ props' = [props EXCEPT ![c] = ParentHandle]
            /\ UNCHANGED <<kind, storage, subscriptions, mailbox, render, issued,
                           hist, sent, lab, screen>>

\* link.callback(Apply): the host component asks for a reusable reduction
reduce(c, f) ==
    /\ status[c] = "mounted"
    /\ issued < MaxDispatch
    /\ Ops < MaxOps
    /\ issued' = issued + 1
    /\ mailbox' = [mailbox EXCEPT ![c] = Append(@, Msg("Apply", Null, f, issued + 1))]
    /\ UNCHANGED <<kind, heap, storage, created, handler, subscriptions, inbox,
                   status, props, render, hist, base, sent, lab, screen>>

\* link.callback(ApplyOnce): the host component asks for a one-shot reduction
reduce_once(c, f) ==
    /\ status[c] = "mounted"
    /\ issued < MaxDispatch
    /\ Ops < MaxOps
    /\ issued' = issued + 1
    /\ mailbox' = [mailbox EXCEPT ![c] = Append(@, Msg("ApplyOnce", Null, f, issued + 1))]
    /\ UNCHANGED <<kind, heap, storage, created, handler, subscriptions, inbox,
                   status, props, render, hist, base, sent, lab, screen>>

\* update that forwards a one-shot request twice
update_resend(c) ==
    /\ status[c] = "mounted"
    /\ mailbox[c] # <<>>
    /\ handled' = "update"
    /\ UNCHANGED <<kind, storage, created, handler, subscriptions, status,
                   counters, lab, shown>>
    /\ LET m == Head(mailbox[c])
           s == ScopeOf(c)
       IN  /\ mailbox' = [mailbox EXCEPT ![c] = Tail(@)]
           /\ \/ /\ m.msg = "Apply"
                 /\ inbox' = send(inbox, s, "Apply", c, m.f, m.tok)
                 /\ render' = FALSE
                 /\ UNCHANGED <<props, heap>>
              \/ /\ m.msg = "ApplyOnce"
                 /\ inbox' = send(send(inbox, s, "ApplyOnce", c, m.f, m.tok),
                                  s, "ApplyOnce", c, m.f, m.tok)
                 /\ render' = FALSE
                 /\ UNCHANGED <<props, heap>>
              \/ /\ m.msg = "SetLocal"
                 /\ props' = [props EXCEPT ![c] = set_local_state(@, m.state)]
                 /\ render' = TRUE
                 /\ UNCHANGED inbox
                 /\ heap' = Release(heap, {props[c]})

\* update that also applies a forwarded reduction to the cached snapshot
update_optimistic(c) ==
    /\ status[c] = "mounted"
    /\ mailbox[c] # <<>>
    /\ handled' = "update"
    /\ UNCHANGED <<kind, storage, created, handler, subscriptions, status,
                   counters, lab, shown>>
    /\ LET m == Head(mailbox[c])
           s == ScopeOf(c)
       IN  /\ mailbox' = [mailbox EXCEPT ![c] = Tail(@)]
           /\ \/ /\ m.msg \in {"Apply", "ApplyOnce"}
                 /\ inbox' = send(inbox, s, m.msg, c, m.f, m.tok)
                 /\ render' = (props[c] # Null)
                 /\ UNCHANGED props
                 /\ heap' = IF props[c] = Null THEN heap
                            ELSE [heap EXCEPT ![props[c]] = Reduce(m.f, @)]
              \/ /\ m.msg = "SetLocal"
                 /\ props' = [props EXCEPT ![c] = set_local_state(@, m.state)]
                 /\ render' = TRUE
                 /\ UNCHANGED inbox
                 /\ heap' = Release(heap, {props[c]})

\* update that handles SetLocal without storing the snapshot
update_drop(c) ==
    /\ status[c] = "mounted"
    /\ mailbox[c] # <<>>
    /\ handled' = "update"
    /\ UNCHANGED <<kind, storage, created, handler, subscriptions, status,
                   counters, lab, shown>>
    /\ LET m == Head(mailbox[c])
           s == ScopeOf(c)
       IN  /\ mailbox' = [mailbox EXCEPT ![c] = Tail(@)]
           /\ \/ /\ m.msg = "Apply"
                 /\ inbox' = send(inbox, s, "Apply", c, m.f, m.tok)
                 /\ render' = FALSE
                 /\ UNCHANGED <<props, heap>>
              \/ /\ m.msg = "ApplyOnce"
                 /\ inbox' = send(inbox, s, "ApplyOnce", c, m.f, m.tok)
                 /\ render' = FALSE
                 /\ UNCHANGED <<props, heap>>
              \/ /\ m.msg = "SetLocal"
                 /\ render' = TRUE
                 /\ UNCHANGED <<inbox, props>>
                 /\ heap' = Release(heap, {m.state})

\* SharedStateComponent::update
update(c) ==
    /\ status[c] = "mounted"
    /\ mailbox[c] # <<>>
    /\ handled' = "update"
    /\ UNCHANGED <<kind, storage, created, handler, subscriptions, status,
                   counters, lab, shown>>
    /\ LET m == Head(mailbox[c])
           s == ScopeOf(c)
       IN  /\ mailbox' = [mailbox EXCEPT ![c] = Tail(@)]
           /\ \/ /\ m.msg = "Apply"
                 /\ inbox' = send(inbox, s, "Apply", c, m.f, m.tok)
                 /\ render' = FALSE
                 /\ UNCHANGED <<props, heap>>
              \/ /\ m.msg = "ApplyOnce"
                 /\ inbox' = send(inbox, s, "ApplyOnce", c, m.f, m.tok)
                 /\ render' = FALSE
                 /\ UNCHANGED <<props, heap>>
              \/ /\ m.msg = "SetLocal"
                 /\ props' = [props EXCEPT ![c] = set_local_state(@, m.state)]
                 /\ render' = TRUE
                 /\ UNCHANGED inbox
                 /\ heap' = Release(heap, {props[c]})

\* change that keeps the incoming properties as the parent supplied them
change_clobber(c) ==
    /\ status[c] = "mounted"
    /\ props' = [props EXCEPT ![c] = ParentHandle]
    /\ render' = TRUE
    /\ handled' = "change"
    /\ UNCHANGED <<kind, storage, created, handler, subscriptions, inbox, status,
                   mailbox, counters, lab, shown>>
    /\ heap' = Release(heap, {props[c]})

\* SharedStateComponent::change: new properties from the parent
change(c) ==
    /\ status[c] = "mounted"
    /\ props' = [props EXCEPT ![c] = set_local(ParentHandle, @)]
    /\ render' = TRUE
    /\ handled' = "change"
    /\ UNCHANGED <<kind, storage, created, handler, subscriptions, inbox, status,
                   mailbox, counters, lab, shown>>
    /\ heap' = Release(heap, {props[c]})

\* SharedStateComponent::view: the wrapped component is rendered with a
\* clone of the properties, so with the snapshot the handle caches
view(c) ==
    /\ status[c] = "mounted"
    /\ shown' = [shown EXCEPT ![c] =
                    IF props[c] = Null THEN ShownParent
                    ELSE ShownState(heap[props[c]])]
    /\ UNCHANGED <<kind, heap, storage, created, handler, subscriptions, inbox,
                   status, props, mailbox, render, counters, lab, handled>>

\* The component is destroyed: props and the queued messages go with it;
\* dropping the bridge tells the service Disconnected.
destroy(c) ==
    /\ status[c] = "mounted"
    /\ status' = [status EXCEPT ![c] = "unmounted"]
    /\ props' = [props EXCEPT ![c] = Null]
    /\ mailbox' = [mailbox EXCEPT ![c] = <<>>]
    /\ inbox' = send(inbox, ScopeOf(c), "Disconnected", c, "-", 0)
    /\ shown' = [shown EXCEPT ![c] = NotShown]
    /\ UNCHANGED <<kind, storage, created, handler, subscriptions, render,
                   counters, lab, handled>>
    /\ heap' = Release(heap, {props[c]} \cup
                             {mailbox[c][i].state : i \in 1..Len(mailbox[c])})

-----------------------------------------------------------------------------
(* The program: components, and the services of their scopes *)

\* a record text that is no Model
Garbled == <<"{", "count", ":", "x", "}">>

\* a Model stored by an earlier session
Stored == [count |-> 5]

InitialRecords == {NoRecord, ToJson(Stored), Garbled}

\* no component yet, no agent yet; a persisting handler type finds a record
Init ==
    /\ kind \in {"Shared", "Storage"}
    /\ storage = [k \in Keys |->
                    IF k = Key /\ kind = "Storage" THEN ToJson(Stored) ELSE NoRecord]
    /\ heap = [a \in Addr |-> Default]
    /\ created = [s \in Scopes |-> FALSE]
    /\ handler = [s \in Scopes |-> NoHandler]
    /\ subscriptions = [s \in Scopes |-> {}]
    /\ inbox = [s \in Scopes |-> <<>>]
    /\ status = [c \in Comps |-> "uninitialized"]
    /\ props = [c \in Comps |-> Null]
    /\ mailbox = [c \in Comps |-> <<>>]
    /\ render = FALSE
    /\ issued = 0
    /\ hist = [s \in Scopes |-> <<>>]
    /\ base = [s \in Scopes |-> Default]
    /\ sent = [c \in Comps |-> 0]
    /\ sh = NoHandler
    /\ mh = NoHandler
    /\ snaps = <<>>
    /\ taken = <<>>
    /\ napplied = 0
    /\ saved = FALSE
    /\ clone = NoHandler
    /\ opened = FALSE
    /\ shown = [c \in Comps |-> NotShown]
    /\ handled = "none"

\* the steps of component c
Component(c) ==
    \/ create(c)
    \/ \E f \in Reds : reduce(c, f)
    \/ \E f \in OnceReds : reduce_once(c, f)
    \/ update(c)
    \/ change(c)
    \/ destroy(c)

\* the steps of the service of scope s
Service(s) ==
    \/ connected(s)
    \/ handle_input(s)
    \/ disconnected(s)

\* the components of scope A and their service
Next ==
    \/ \E c \in 1..MaxComp : Component(c)
    \/ Service("A")

Spec == Init /\ [][Next]_vars

\* Agent::handle_input reached by a sender that holds no registered bridge:
\* the request is queued for the service like any other
input(s, ev, f) ==
    /\ created[s]
    /\ issued < MaxDispatch
    /\ Ops < MaxOps
    /\ issued' = issued + 1
    /\ inbox' = send(inbox, s, ev, Null, f, issued + 1)
    /\ UNCHANGED <<kind, heap, storage, created, handler, subscriptions, status,
                   props, mailbox, render, hist, base, sent, lab, screen>>

\* The scheduler runs every queued message: an adapter with a message in its
\* queue handles it, a service with an event in its queue handles it.
Fairness ==
    /\ \A c \in 1..MaxComp : WF_vars(update(c))
    /\ WF_vars(Service("A"))

\* components that are created, ask for reductions and handle their
\* messages, the first of them destroyed at any time, and their service
FairNext ==
    \/ \E c \in 1..MaxComp :
          \/ create(c)
          \/ \E f \in Reds : reduce(c, f)
          \/ update(c)
    \/ destroy(1)
    \/ Service("A")

FairSpec == Init /\ [][FairNext]_vars /\ Fairness

\* the components of scope A and their service, the first one rendered by
\* the framework
RenderNext ==
    \/ \E c \in 1..MaxComp :
          \/ create(c)
          \/ \E f \in Reds : reduce(c, f)
          \/ \E f \in OnceReds : reduce_once(c, f)
          \/ update(c)
          \/ destroy(c)
    \/ view(1)
    \/ Service("A")

RenderSpec == Init /\ [][RenderNext]_vars

\* the service driven through the Agent interface, next to components that
\* come and go
ServiceNext ==
    \/ \E c \in 1..MaxComp : create(c) \/ update(c) \/ destroy(c)
    \/ Service("A")
    \/ \E f \in Reds : input("A", "Apply", f)
    \/ \E f \in OnceReds : input("A", "ApplyOnce", f)

ServiceSpec == Init /\ [][ServiceNext]_vars

\* one component in each scope, and both services
ScopedNext ==
    \/ \E c \in {1, Other} : Component(c)
    \/ \E s \in Scopes : Service(s)

ScopedSpec == Init /\ [][ScopedNext]_vars

-----------------------------------------------------------------------------
(* The handler laboratory: a StorageHandler and a SharedHandler constructed *)
(* together and given the same reductions, with readers that keep the       *)
(* snapshots state() hands out                                              *)

HInit ==
    /\ kind = "Storage"
    /\ \E r \in InitialRecords :
         storage = [k \in Keys |-> IF k = Key THEN r ELSE NoRecord]
    /\ \E avail \in BOOLEAN :
        LET empty == [a \in Addr |-> Default]
            r1 == StorageHandler_new(avail, empty, {}, storage)
            r2 == SharedHandler_new(r1.heap, r1.busy, storage)
        IN  /\ sh = r1.h
            /\ mh = r2.h
            /\ heap = r2.heap
    /\ snaps = <<>>
    /\ taken = <<>>
    /\ napplied = 0
    /\ saved = FALSE
    /\ clone = NoHandler
    /\ opened = FALSE
    /\ shown = [c \in Comps |-> NotShown]
    /\ handled = "none"
    /\ created = [s \in Scopes |-> FALSE]
    /\ handler = [s \in Scopes |-> NoHandler]
    /\ subscriptions = [s \in Scopes |-> {}]
    /\ inbox = [s \in Scopes |-> <<>>]
    /\ status = [c \in Comps |-> "uninitialized"]
    /\ props = [c \in Comps |-> Null]
    /\ mailbox = [c \in Comps |-> <<>>]
    /\ render = FALSE
    /\ issued = 0
    /\ hist = [s \in Scopes |-> <<>>]
    /\ base = [s \in Scopes |-> Default]
    /\ sent = [c \in Comps |-> 0]

\* the variables of the component program, idle in the laboratory
program == <<kind, created, handler, subscriptions, inbox, status, props,
             mailbox, render, counters, screen>>

\* handler.apply(f) on both handlers
HApply(f) ==
    /\ napplied < MaxApply
    /\ \E written \in BOOLEAN :
        LET r1 == StorageHandler_apply(sh, f, heap, Busy, storage, written)
            r2 == SharedHandler_apply(mh, f, r1.heap, r1.busy, r1.storage)
        IN  /\ sh' = r1.h
            /\ mh' = r2.h
            /\ heap' = r2.heap
            /\ storage' = r2.storage
            /\ saved' = (sh.storage /\ written)
    /\ napplied' = napplied + 1
    /\ UNCHANGED <<snaps, taken, clone, opened, program>>

\* handler.apply_once(f) on both handlers
HApplyOnce(f) ==
    /\ napplied < MaxApply
    /\ \E written \in BOOLEAN :
        LET r1 == StorageHandler_apply_once(sh, f, heap, Busy, storage, written)
            r2 == SharedHandler_apply_once(mh, f, r1.heap, r1.busy, r1.storage)
        IN  /\ sh' = r1.h
            /\ mh' = r2.h
            /\ heap' = r2.heap
            /\ storage' = r2.storage
            /\ saved' = (sh.storage /\ written)
    /\ napplied' = napplied + 1
    /\ UNCHANGED <<snaps, taken, clone, opened, program>>

\* a reader calls handler.state() and keeps the snapshot
HState(h) ==
    /\ Len(snaps) < MaxSnaps
    /\ snaps' = Append(snaps, Handler_state(h))
    /\ taken' = Append(taken, heap[Handler_state(h)])
    /\ UNCHANGED <<heap, storage, sh, mh, napplied, saved, clone, opened, program>>

\* a reader drops its snapshot
HDrop(i) ==
    /\ i \in 1..Len(snaps)
    /\ snaps' = SubSeq(snaps, 1, i - 1) \o SubSeq(snaps, i + 1, Len(snaps))
    /\ taken' = SubSeq(taken, 1, i - 1) \o SubSeq(taken, i + 1, Len(taken))
    /\ UNCHANGED <<storage, sh, mh, napplied, saved, clone, opened, program>>
    /\ heap' = Release(heap, {snaps[i]})

\* sh.clone()
HClone ==
    /\ clone = NoHandler
    /\ \E avail \in BOOLEAN :
        LET r == StorageHandler_clone(sh, avail, heap, Busy, storage)
        IN  /\ clone' = r.h
            /\ opened' = avail
            /\ heap' = r.heap
            /\ storage' = r.storage
    /\ UNCHANGED <<sh, mh, snaps, taken, napplied, saved, program>>

\* the clone is dropped
HDropClone ==
    /\ clone # NoHandler
    /\ clone' = NoHandler
    /\ opened' = FALSE
    /\ UNCHANGED <<storage, sh, mh, snaps, taken, napplied, saved, program>>
    /\ heap' = Release(heap, {clone.state})

HNext ==
    \/ \E f \in Reds : HApply(f)
    \/ \E f \in OnceReds : HApplyOnce(f)
    \/ HState(sh)
    \/ HState(mh)
    \/ \E i \in 1..MaxSnaps : HDrop(i)

HSpec == HInit /\ [][HNext]_vars

\* the StorageHandler cloned and dropped between reductions
CloneNext ==
    \/ HClone
    \/ HDropClone
    \/ \E f \in Reds : HApply(f)
    \/ \E f \in OnceReds : HApplyOnce(f)

CloneSpec == HInit /\ [][CloneNext]_vars

-----------------------------------------------------------------------------
(* Vocabulary of the properties *)

Max(S) == CHOOSE x \in S : \A y \in S : x >= y

\* the Model value of a snapshot
Value(a) == heap[a]

\* the handler's Model after the requests of es, starting from m
RECURSIVE ApplyAll(_, _)
ApplyAll(es, m) ==
    IF es = <<>> THEN m ELSE ApplyAll(Tail(es), Reduce(Head(es).f, m))

\* the Model the handler of s held after the first k requests it applied
Held_after(s, k) == ApplyAll(SubSeq(hist[s], 1, k), base[s])

\* the requests es of one sender appear in the order they were issued
InIssueOrder(es) ==
    \A i, j \in 1..Len(es) :
        (i < j /\ es[i].who = es[j].who) => es[i].tok < es[j].tok

\* an event ev of component c is still queued for its service
Pending(c, ev) ==
    \E i \in 1..Len(inbox[ScopeOf(c)]) :
        inbox[ScopeOf(c)][i].ev = ev /\ inbox[ScopeOf(c)][i].who = c

\* the SetLocal messages queued for component c
Queued(c) == {i \in 1..Len(mailbox[c]) : mailbox[c][i].msg = "SetLocal"}

\* the snapshot component c caches once it has processed what is queued
Latest(c) ==
    IF Queued(c) = {} THEN props[c] ELSE mailbox[c][Max(Queued(c))].state

\* the service of s has connected c and not (yet) disconnected it
Connected(c) ==
    /\ status[c] # "uninitialized"
    /\ ~Pending(c, "Connected")
    /\ ~(status[c] = "unmounted" /\ ~Pending(c, "Disconnected"))

\* the service has run disconnected for c
Gone(c) == status[c] = "unmounted" /\ ~Pending(c, "Disconnected")

\* the SetLocal messages component c has handled since it was created
Handled(c) == sent[c] - Cardinality(Queued(c))

\* this step is the view that renders component c anew
Rendered(c) == status'[c] = "mounted" /\ shown'[c] # shown[c]

\* this step is c's update handling the message at the head of its queue
Updated(c) ==
    /\ status[c] = "mounted" /\ status'[c] = "mounted"
    /\ mailbox[c] # <<>>
    /\ mailbox'[c] = Tail(mailbox[c])

\* this step is a change of some component (seen when another method ran
\* before it)
Changed == handled # "change" /\ handled' = "change"

\* adapter c has handled everything sent to it and caches the handler's Model
Settled(c) ==
    /\ status[c] = "mounted"
    /\ Queued(c) = {}
    /\ props[c] # Null
    /\ Value(props[c]) = Value(handler[ScopeOf(c)].state)

\* the snapshots queued for component c, oldest first
IsSetLocal(m) == m.msg = "SetLocal"
Snapshots(c) == SelectSeq(mailbox[c], IsSetLocal)

\* how many requests the handler had applied when it held the snapshot that
\* component c caches
CacheIndex(c) == Len(hist[ScopeOf(c)]) - Len(Snapshots(c))

\* this step is a handle_input of the service of s
Dispatched(s) == Len(hist'[s]) > Len(hist[s])

\* this step is a connected of the service of s
Joined(s) ==
    /\ inbox[s] # <<>>
    /\ Head(inbox[s]).ev = "Connected"
    /\ inbox'[s] = Tail(inbox[s])

SetLocal(a) == Msg("SetLocal", a, "-", 0)

-----------------------------------------------------------------------------
(* Properties *)

\* C1 as stated: right after each dispatch (handle_input) every subscriber
\* in the registry whose adapter is mounted caches the handler's snapshot.
C1_CachedRightAfterDispatch ==
    [][\A s \in Scopes : Dispatched(s) =>
         \A c \in subscriptions'[s] : status'[c] = "mounted" =>
            /\ props'[c] # Null
            /\ heap'[props'[c]] = heap'[handler'[s].state]]_vars

\* C1 amended: in every state, so after each dispatch, the handler's
\* snapshot has reached every subscriber of the registry whose adapter is
\* mounted: it is the last State message queued for the adapter or, when
\* none is queued, the snapshot the adapter caches.
C1_LatestIsHandlerState ==
    \A s \in Scopes : \A c \in subscriptions[s] :
        status[c] = "mounted" =>
            /\ Latest(c) # Null
            /\ Value(Latest(c)) = Value(handler[s].state)

\* after a dispatch that changed the Model, one subscriber has caught up
\* and another still has the State message queued
C1_Witness ==
    \E s \in Scopes : \E c1, c2 \in subscriptions[s] :
        /\ c1 # c2
        /\ status[c1] = "mounted" /\ status[c2] = "mounted"
        /\ Len(hist[s]) >= 1
        /\ Value(handler[s].state) # base[s]
        /\ Queued(c1) = {} /\ props[c1] = handler[s].state
        /\ Queued(c2) # {} /\ props[c2] # Null
        /\ Value(props[c2]) # Value(handler[s].state)

\* C2: the connected step itself sends the joining subscriber one State
\* message whose snapshot is the handler's Model after all the N requests
\* applied so far, and applies nothing.
C2_LateJoin ==
    [][\A s \in Scopes : Joined(s) =>
         LET who == Head(inbox[s]).who
         IN  /\ sent'[who] = sent[who] + 1
             /\ hist' = hist
             /\ status[who] = "mounted" =>
                  /\ Len(mailbox'[who]) = Len(mailbox[who]) + 1
                  /\ mailbox'[who][Len(mailbox'[who])].msg = "SetLocal"
                  /\ heap'[mailbox'[who][Len(mailbox'[who])].state]
                       = ApplyAll(hist[s], base[s])]_vars

\* a subscriber that joined after a request was applied holds, as its only
\* message, the snapshot with that request applied
C2_Witness ==
    \E s \in Scopes : \E c \in subscriptions[s] :
        /\ status[c] = "mounted"
        /\ Len(hist[s]) >= 1
        /\ sent[c] = 1
        /\ Len(mailbox[c]) = 1
        /\ mailbox[c][1].msg = "SetLocal"
        /\ Value(mailbox[c][1].state) = ApplyAll(hist[s], base[s])
        /\ Value(mailbox[c][1].state) # base[s]

\* C3: once disconnected has run for a subscriber, no step sends it a State
\* response or queues a message for it.
C3_DisconnectionSilence ==
    [][\A c \in Comps : Gone(c) =>
         /\ sent'[c] = sent[c]
         /\ mailbox'[c] = mailbox[c]]_vars

\* a request was applied and broadcast after a subscriber had disconnected
C3_Witness ==
    \E s \in Scopes : \E c, d \in Comps :
        /\ ScopeOf(c) = s /\ ScopeOf(d) = s
        /\ Gone(c)
        /\ sent[c] = 1
        /\ d \in subscriptions[s]
        /\ Len(hist[s]) >= 1
        /\ sent[d] = 2

\* C4: a dispatch sends exactly one State response to every identity of the
\* registry and none to any other, and the snapshot sent is the handler's
\* state after the request's reduction.
C4_ExactlyOnce ==
    [][\A s \in Scopes : Dispatched(s) =>
         /\ heap'[handler'[s].state] =
                Reduce(Head(inbox[s]).f, heap[handler[s].state])
         /\ \A c \in Comps :
              IF c \in subscriptions[s]
              THEN /\ sent'[c] = sent[c] + 1
                   /\ status[c] = "mounted" =>
                        mailbox'[c] = Append(mailbox[c], SetLocal(handler'[s].state))
              ELSE /\ sent'[c] = sent[c]
                   /\ mailbox'[c] = mailbox[c]]_vars

\* a dispatch has reached two subscribers, once each
C4_Witness ==
    \E s \in Scopes : \E c1, c2 \in subscriptions[s] :
        /\ c1 # c2
        /\ Len(hist[s]) = 1
        /\ sent[c1] = 2 /\ sent[c2] = 2
        /\ Len(mailbox[c1]) = 2 /\ Len(mailbox[c2]) = 2
        /\ mailbox[c1][2] = SetLocal(handler[s].state)
        /\ mailbox[c2][2] = SetLocal(handler[s].state)

\* C5 as stated: the registry is exactly the connected, not yet disconnected
\* identities and never holds the identity of a destroyed adapter.
C5_NoDestroyedAdapter ==
    \A s \in Scopes :
        /\ subscriptions[s] = {c \in Comps : ScopeOf(c) = s /\ Connected(c)}
        /\ \A c \in subscriptions[s] : status[c] # "unmounted"

\* C5 amended: the registry is exactly the identities the service has
\* connected and not yet disconnected; it holds the identity of a destroyed
\* adapter only while that adapter's Disconnected is still queued.
C5_Registry ==
    \A s \in Scopes :
        /\ subscriptions[s] = {c \in Comps : ScopeOf(c) = s /\ Connected(c)}
        /\ \A c \in subscriptions[s] :
              status[c] = "unmounted" => Pending(c, "Disconnected")

\* one adapter connected, destroyed and disconnected, another one registered
C5_Witness ==
    \E s \in Scopes : \E c, d \in Comps :
        /\ ScopeOf(c) = s /\ ScopeOf(d) = s
        /\ Gone(c) /\ sent[c] = 1
        /\ c \notin subscriptions[s]
        /\ subscriptions[s] = {d}

\* C6: after an apply / apply_once of a StorageHandler whose storage is there
\* and whose write went through, the record under the key is the text of the
\* Model in memory, and a handler constructed by new() from it has that Model.
C6_RoundTrip ==
    (sh.storage /\ saved) =>
        LET fresh == StorageHandler_new(TRUE, heap, Busy, storage)
        IN  /\ storage[Key] = ToJson(Value(sh.state))
            /\ FromJson(storage[Key]) = [ok |-> TRUE, val |-> Value(sh.state)]
            /\ fresh.h.storage
            /\ fresh.heap[Handler_state(fresh.h)] = Value(sh.state)

\* from the default Model, two increments were written: the record is count 2
C6_Witness ==
    /\ sh.storage /\ saved
    /\ napplied = 2
    /\ Value(sh.state) = [count |-> 2]
    /\ storage[Key] = <<"{", "count", ":", "2", "}">>

\* C7: a StorageHandler whose storage is not there has, after every
\* reduction, the Model of a SharedHandler given the same reductions.
C7_Degraded ==
    ~sh.storage => Value(Handler_state(sh)) = Value(Handler_state(mh))

\* storage is not there though a record exists; two reductions were applied
C7_Witness ==
    /\ ~sh.storage
    /\ storage[Key] = ToJson(Stored)
    /\ napplied = 2
    /\ Value(Handler_state(sh)) # Default

\* C8: every snapshot a reader holds has the Model it had when state()
\* handed it out, whatever was applied since.
C8_SnapshotImmutable ==
    \A i \in 1..Len(snaps) : Value(snaps[i]) = taken[i]

\* a reader holds a snapshot the handlers have since moved away from
C8_Witness ==
    \E i \in 1..Len(snaps) :
        /\ snaps[i] \notin {sh.state, mh.state}
        /\ napplied >= 1
        /\ Value(snaps[i]) # Value(sh.state)
        /\ Value(snaps[i]) # Value(mh.state)

\* C9: no one-shot request is applied twice: a request object applied as
\* ApplyOnce appears once in what the services have applied.
C9_OneShot ==
    \A s, t \in Scopes : \A i \in 1..Len(hist[s]) : \A j \in 1..Len(hist[t]) :
        (hist[s][i].ev = "ApplyOnce" /\ hist[t][j].tok = hist[s][i].tok)
            => (s = t /\ i = j)

\* a one-shot request was applied and nothing of it is left in any queue
C9_Witness ==
    \E s \in Scopes : \E i \in 1..Len(hist[s]) :
        /\ hist[s][i].ev = "ApplyOnce"
        /\ \A t \in Scopes : inbox[t] = <<>>
        /\ \A c \in Comps : \A k \in 1..Len(mailbox[c]) :
              mailbox[c][k].msg = "SetLocal"
        /\ issued = MaxDispatch

C12_NoListeners ==
    [][\A s \in Scopes :
         /\ (Dispatched(s) /\ subscriptions[s] = {}) =>
              LET e == Head(inbox[s])
              IN  /\ heap'[handler'[s].state] = Reduce(e.f, heap[handler[s].state])
                  /\ heap'[handler'[s].state] = ApplyAll(hist'[s], base[s])
                  /\ saved' => storage'[Key] = ToJson(heap'[handler'[s].state])
                  /\ kind = "Storage" => saved' \/ storage' = storage
                  /\ mailbox' = mailbox
                  /\ sent' = sent
         /\ Joined(s) =>
              LET who == Head(inbox[s]).who
              IN  /\ sent'[who] = sent[who] + 1
                  /\ status[who] = "mounted" =>
                       /\ mailbox'[who] =
                             Append(mailbox[who], SetLocal(handler[s].state))
                       /\ Value(handler[s].state) = Held_after(s, Len(hist[s]))]_vars

\* the Model was changed by a request processed with nobody registered, and a
\* component that connected afterwards has the changed Model queued for it
C12_Witness ==
    \E s \in Scopes : \E c \in Comps :
        /\ Len(hist[s]) = 1
        /\ hist[s][1].who = Null
        /\ sent[c] = 1
        /\ subscriptions[s] = {c}
        /\ status[c] = "mounted"
        /\ Queued(c) # {}
        /\ Value(Latest(c)) = Reduce(hist[s][1].f, base[s])
        /\ Value(Latest(c)) # base[s]

\* C13: a StorageHandler just constructed by new() has the default Model
\* when storage is not there, when there is no record and when the record
\* is no Model; it has the stored Model when storage is there and the record
\* is one.  new() has an outcome in every case.
C13_LoadFailureIsAbsence ==
    napplied = 0 =>
        /\ sh.storage \in BOOLEAN
        /\ sh.state \in Addr
        /\ ~sh.storage => Value(Handler_state(sh)) = Default
        /\ storage[Key] = NoRecord => Value(Handler_state(sh)) = Default
        /\ storage[Key] = Garbled => Value(Handler_state(sh)) = Default
        /\ (sh.storage /\ storage[Key] = <<"{", "count", ":", "5", "}">>)
              => Value(Handler_state(sh)) = [count |-> 5]

\* storage is there and holds a record that is no Model: new() gave the
\* default Model
C13_Witness ==
    /\ napplied = 0
    /\ sh.storage
    /\ storage[Key] = Garbled
    /\ Value(Handler_state(sh)) = Default
    /\ Stored # Default

\* C14: when the write of a dispatch's apply / apply_once does not go
\* through, the Model in memory is the reduced Model all the same, the
\* record stays as it was, and every subscriber of the registry is sent the
\* reduced Model in that step.
C14_SaveFailureSwallowed ==
    [][\A s \in Scopes :
         (Dispatched(s) /\ handler[s].storage /\ ~saved') =>
            LET e == Head(inbox[s])
                snap == Handler_state(handler'[s])
            IN  /\ heap'[snap] = Reduce(e.f, heap[handler[s].state])
                /\ storage' = storage
                /\ \A c \in subscriptions[s] :
                      /\ sent'[c] = sent[c] + 1
                      /\ status[c] = "mounted" =>
                            mailbox'[c] = Append(mailbox[c], SetLocal(snap))]_vars

\* the record is still the one found at construction although a request
\* changed the Model, and a subscriber has the changed Model queued or cached
C14_Witness ==
    \E s \in Scopes : \E c \in subscriptions[s] :
        /\ handler[s].storage
        /\ ~saved
        /\ Len(hist[s]) = 1
        /\ storage[Key] = ToJson(Stored)
        /\ Value(Handler_state(handler[s])) = Reduce(hist[s][1].f, Stored)
        /\ status[c] = "mounted"
        /\ Latest(c) # Null
        /\ Value(Latest(c)) = Reduce(hist[s][1].f, Stored)

\* C15 as stated: the first render of a created adapter shows the service's
\* current snapshot.
C15_FirstRenderCurrent ==
    [][\A c \in Comps :
         (Rendered(c) /\ shown[c] = NotShown) =>
            shown'[c] = ShownState(Value(handler[ScopeOf(c)].state))]_vars

\* C15 amended: create connects the adapter (the agent of its scope exists
\* and has the adapter's Connected event queued) and stores nothing; a render
\* shows what the adapter caches: the handle as the parent supplied it until
\* the adapter has handled a SetLocal, and from then on the snapshot of the
\* last SetLocal it handled, a Model the handler held; handling a SetLocal
\* asks for a re-render.
C15_RenderShowsCache ==
    [][\A c \in Comps :
         LET s == ScopeOf(c)
         IN  /\ (status[c] = "uninitialized" /\ status'[c] = "mounted") =>
                   /\ created'[s]
                   /\ inbox'[s] = Append(inbox[s], Event("Connected", c, "-", 0))
                   /\ props'[c] = ParentHandle
                   /\ mailbox'[c] = <<>>
             /\ Rendered(c) =>
                   IF Handled(c) = 0
                   THEN shown'[c] = ShownParent
                   ELSE shown'[c] = ShownState(Held_after(s,
                                       Len(hist[s]) - Cardinality(Queued(c))))
             /\ (status'[c] = "mounted" /\ Handled(c)' > Handled(c)) =>
                   /\ render'
                   /\ props'[c] = Head(mailbox[c]).state]_vars

\* the adapter was rendered after it handled the snapshot of a dispatch: the
\* wrapped component shows the handler's changed Model
C15_Witness ==
    /\ status[1] = "mounted"
    /\ Len(hist["A"]) >= 1
    /\ Handled(1) = 2
    /\ Value(handler["A"].state) # base["A"]
    /\ shown[1] = ShownState(Value(handler["A"].state))

\* C16: an adapter that handles an Apply / ApplyOnce message of its host
\* component queues that request for its service and does nothing else: the
\* cached snapshot, its Model and what is on screen stay, and no re-render
\* is asked for.  The cached snapshot of a mounted adapter changes only when
\* the adapter handles a SetLocal, and then to the snapshot delivered.
C16_NoOptimisticUpdate ==
    [][\A c \in Comps :
         LET s == ScopeOf(c)
             m == Head(mailbox[c])
         IN  /\ (Updated(c) /\ m.msg \in {"Apply", "ApplyOnce"}) =>
                   /\ inbox'[s] = Append(inbox[s], Event(m.msg, c, m.f, m.tok))
                   /\ props' = props
                   /\ heap' = heap
                   /\ handler' = handler
                   /\ shown' = shown
                   /\ render' = FALSE
             /\ (status[c] = "mounted" /\ status'[c] = "mounted"
                    /\ props'[c] # props[c]) =>
                   /\ Updated(c)
                   /\ m.msg = "SetLocal"
                   /\ props'[c] = m.state
             /\ (status'[c] = "mounted" /\ props[c] # Null
                    /\ props'[c] = props[c]) =>
                   heap'[props[c]] = heap[props[c]]]_vars

\* an adapter has just forwarded a request: the request is queued for the
\* service, the adapter still caches the Model from before the request, and
\* no re-render was asked for
C16_Witness ==
    \E c \in Comps :
        /\ status[c] = "mounted"
        /\ handled = "update" /\ ~render
        /\ props[c] # Null
        /\ inbox[ScopeOf(c)] # <<>>
        /\ Head(inbox[ScopeOf(c)]).who = c
        /\ Head(inbox[ScopeOf(c)]).ev \in {"Apply", "ApplyOnce"}
        /\ Value(props[c]) = Value(handler[ScopeOf(c)].state)
        /\ Reduce(Head(inbox[ScopeOf(c)]).f, Value(props[c])) # Value(props[c])

\* C17: a change (new properties from the parent) leaves every adapter's
\* cached snapshot and its Model as they were and asks for a re-render; a
\* mounted adapter that caches a snapshot never goes back to the handle as
\* the parent supplies it.
C17_ChangeKeepsSnapshot ==
    [][/\ Changed =>
            /\ props' = props
            /\ \A c \in Comps : props[c] # Null => heap'[props[c]] = heap[props[c]]
            /\ render' = TRUE
            /\ mailbox' = mailbox
            /\ inbox' = inbox
       /\ \A c \in Comps :
            (status'[c] = "mounted" /\ props[c] # ParentHandle)
                => props'[c] # ParentHandle]_vars

\* after a change an adapter still caches the handler's Model, which is not
\* the default Model
C17_Witness ==
    \E c \in Comps :
        /\ status[c] = "mounted"
        /\ handled = "change" /\ render
        /\ props[c] # ParentHandle
        /\ Value(props[c]) = Value(handler[ScopeOf(c)].state)
        /\ Value(props[c]) # Default

\* C18: clone() of a StorageHandler opens storage anew, so the clone has
\* storage exactly when StorageService::new gave it one at that moment, and
\* the clone's state() is the source's Model in memory, whatever the record
\* holds; the source and the record stay as they were.
C18_Clone ==
    [][(clone = NoHandler /\ clone' # NoHandler) =>
          /\ clone'.storage = opened'
          /\ heap'[Handler_state(clone')] = heap[Handler_state(sh)]
          /\ sh' = sh
          /\ heap'[Handler_state(sh)] = heap[Handler_state(sh)]
          /\ storage' = storage]_vars

\* the source has no storage and a reduced default Model; the clone opened
\* storage, which holds another Model, and has the source's Model
C18_Witness ==
    /\ clone # NoHandler
    /\ ~sh.storage
    /\ clone.storage /\ opened
    /\ napplied >= 1
    /\ storage[Key] = ToJson(Stored)
    /\ Value(Handler_state(clone)) = Value(Handler_state(sh))
    /\ Value(Handler_state(clone)) # Stored
    /\ Value(Handler_state(clone)) # Default

\* C19: when every queued message is handled in the end, there comes a
\* moment from which every mounted adapter has handled all that was sent to
\* it and caches the handler's Model; and an adapter in that condition stays
\* in it, as long as it is mounted, until the next dispatch.
C19_Convergence ==
    /\ <>[](\A c \in Comps : status[c] = "mounted" => Settled(c))
    /\ [][\A c \in Comps :
            (Settled(c) /\ status'[c] = "mounted" /\ ~Dispatched(ScopeOf(c)))
                => Settled(c)']_vars

\* two mounted adapters have handled everything and cache the Model that
\* the two requests of the run left in the handler
C19_Witness ==
    /\ Len(hist["A"]) >= 1
    /\ inbox["A"] = <<>>
    /\ Value(handler["A"].state) # base["A"]
    /\ \E c, d \in Comps :
          /\ c # d
          /\ Settled(c) /\ Settled(d)
          /\ mailbox[c] = <<>> /\ mailbox[d] = <<>>

\* C20: for a mounted adapter, the snapshots still queued are the Models the
\* handler held after its latest requests, one per request and in the order
\* applied (preceded by the Model at connection while that one is queued);
\* the snapshot the adapter caches is the handle as supplied, or the Model
\* the handler held just before those; and the cached snapshot never moves
\* to a Model the handler held earlier.
C20_SnapshotOrder ==
    /\ [](\A c \in Comps : status[c] = "mounted" =>
            LET s == ScopeOf(c)
                q == Snapshots(c)
            IN  /\ Len(q) <= Len(hist[s]) + 1
                /\ \A j \in 1..Len(q) :
                      Value(q[j].state) = Held_after(s, CacheIndex(c) + j)
                /\ props[c] = ParentHandle => Handled(c) = 0
                /\ props[c] # ParentHandle =>
                      /\ Handled(c) >= 1
                      /\ CacheIndex(c) >= 0
                      /\ Value(props[c]) = Held_after(s, CacheIndex(c)))
    /\ [][\A c \in Comps :
            (status[c] = "mounted" /\ status'[c] = "mounted"
                /\ props[c] # ParentHandle)
              => /\ props'[c] # ParentHandle
                 /\ CacheIndex(c)' >= CacheIndex(c)]_vars

\* an adapter caches the Model of its connection and has the Models after
\* the first and after the second request queued, all three different
C20_Witness ==
    \E c \in Comps :
        /\ status[c] = "mounted"
        /\ Handled(c) = 1
        /\ Len(Snapshots(c)) = 2
        /\ Len(hist[ScopeOf(c)]) = 2
        /\ Value(props[c]) = base[ScopeOf(c)]
        /\ Value(props[c]) # Value(Snapshots(c)[1].state)
        /\ Value(Snapshots(c)[1].state) # Value(Snapshots(c)[2].state)
        /\ Value(Snapshots(c)[2].state) = Value(handler[ScopeOf(c)].state)

====
